---- MODULE Spec2Model ----
(***************************************************************************)
(* The token network of the pathfinding service                            *)
(* (src/src/pathfinding_service/model/token_network.py): the channel graph *)
(* kept by the contract event handlers and the balance-update handler, and *)
(* the diversity-penalised path search get_paths.                          *)
(*                                                                         *)
(* One call of a handler is one step.  A call that raises keeps the        *)
(* writes it made before the raise; the exception is recorded in exc.      *)
(***************************************************************************)
EXTENDS Integers, Sequences, FiniteSets, TLC

(***************************************************************************)
(* Bounds of the model.                                                    *)
(***************************************************************************)
\* Checksummed participant addresses.
Address == {"A", "B", "C"}

\* Channel identifiers are 1..NumChannelIds.
NumChannelIds == 4

\* Deposits, capacities and transfer values are 0..MaxAmount.
MaxAmount == 1

\* Nonces of balance updates are 1..MaxNonce (a fresh view has nonce 0).
MaxNonce == 1

\* Settle timeouts of the chain's channels are 1..MaxSettleTimeout.
MaxSettleTimeout == 2

\* Reveal timeouts of balance updates are 0..MaxRevealTimeout.
MaxRevealTimeout == 1

\* Callers ask for -1..MaxPathsArg paths.
MaxPathsArg == 3

\* Diversity penalties are 0..MaxPenalty.
MaxPenalty == 1

\* A behaviour is a sequence of events and messages followed by path
\* queries, MaxCalls calls in all, at most MaxQueries of them queries.
MaxCalls == 4

MaxQueries == 1

\* Relative fees are 0..MaxFee.
MaxFee == 1

\* Calls made on the established network of SpecDense.
DenseCalls == 2

ChannelIdentifier == 1..NumChannelIds

(***************************************************************************)
(* The chain whose events are delivered.  A channel identifier names one  *)
(* channel of the token network contract, so every ChannelOpened event of  *)
(* an identifier carries the same participants and settle timeout.         *)
(* Channels 1, 2, 3 join A-B, B-C, A-C; channel 4 is a later channel of    *)
(* the pair B-A with a shorter settle timeout, and so on.                  *)
(***************************************************************************)
ParticipantPairs == <<<<"A", "B">>, <<"B", "C">>, <<"A", "C">>>>

chain_participants(c) ==
    LET p == ParticipantPairs[((c - 1) % 3) + 1]
    IN  IF ((c - 1) \div 3) % 2 = 0 THEN p ELSE <<p[2], p[1]>>

chain_settle_timeout(c) == MaxSettleTimeout - (((c - 1) \div 3) % MaxSettleTimeout)

\* The addresses of a denser network: D has channels with B and C.
DenseAddress == Address \cup {"D"}

\* The channels of the denser network, in the order they were opened: the
\* chain's channels 1, 2, 3 and the two channels of D.
DenseChain ==
    [i \in 1..5 |->
        IF i <= 3
        THEN [channel_identifier |-> i,
              participant1 |-> chain_participants(i)[1],
              participant2 |-> chain_participants(i)[2],
              settle_timeout |-> chain_settle_timeout(i)]
        ELSE [channel_identifier |-> NumChannelIds + i,
              participant1 |-> IF i = 4 THEN "B" ELSE "C",
              participant2 |-> "D",
              settle_timeout |-> MaxSettleTimeout]]

Amount == 0..MaxAmount
Nonce == 1..MaxNonce
RevealTimeout == 0..MaxRevealTimeout
MaxPaths == (0 - 1)..MaxPathsArg

(***************************************************************************)
(* pathfinding_service.config and pathfinding_service.model.ChannelView    *)
(***************************************************************************)
\* Minimum settle_timeout / reveal_timeout of a usable edge.
DEFAULT_SETTLE_TO_REVEAL_TIMEOUT_RATIO == 2

\* The system maximum of paths per request (scaled to the three-node graph).
MAX_PATHS_PER_REQUEST == 2

\* reveal_timeout of a fresh ChannelView (scaled to MaxSettleTimeout).
DEFAULT_REVEAL_TIMEOUT == 1

\* An optional keyword argument is <<>> when not supplied and <<v>> when supplied.
Supplied(x) == x # <<>>

\* ChannelView(channel_id, participant1, participant2, settle_timeout, deposit)
ChannelView(channel_id, participant1, participant2, settle_timeout, deposit) ==
    [channel_id     |-> channel_id,
     participant1   |-> participant1,
     participant2   |-> participant2,
     settle_timeout |-> settle_timeout,
     reveal_timeout |-> DEFAULT_REVEAL_TIMEOUT,
     deposit        |-> deposit,
     capacity       |-> deposit,
     nonce          |-> 0,
     relative_fee   |-> 0]

\* ChannelView.update_capacity(nonce?, capacity?, deposit?, reveal_timeout?):
\* applies the supplied fields; a supplied deposit is the new total deposit
\* and the new capacity.
update_capacity(view, nonce, capacity, deposit, reveal_timeout) ==
    [view EXCEPT
        !.nonce          = IF Supplied(nonce) THEN nonce[1] ELSE @,
        !.capacity       = IF Supplied(deposit) THEN deposit[1]
                           ELSE IF Supplied(capacity) THEN capacity[1] ELSE @,
        !.deposit        = IF Supplied(deposit) THEN deposit[1] ELSE @,
        !.reveal_timeout = IF Supplied(reveal_timeout) THEN reveal_timeout[1] ELSE @]

(***************************************************************************)
(* State                                                                   *)
(***************************************************************************)
VARIABLES
    channel_id_to_addresses, \* self.channel_id_to_addresses: id -> <<participant1, participant2>>
    G,                       \* self.G: [nodes, adj], adj: <<u, v>> -> attribute dict of edge u->v
    call,                    \* the last call made on the token network (a query with its arguments)
    exc,                     \* the exception that call raised, "none" when it returned
    log,                     \* the log.error message of that call, "" when none
    result,                  \* the list get_paths returned, <<>> for other calls
    closed_ids,              \* history: ids closed while known and not opened since
    calls,                   \* number of calls begun so far
    queries,                 \* number of get_paths calls among them
    rounds,                  \* number of rounds the loop of the last get_paths ran
    inflight                 \* the balance update a thread is in the middle of, <<>> when none

vars == <<channel_id_to_addresses, G, call, exc, log, result, closed_ids, calls, queries,
          rounds, inflight>>

(***************************************************************************)
(* networkx.DiGraph as the handlers use it                                 *)
(***************************************************************************)
has_edge(g, u, v) == <<u, v>> \in DOMAIN g.adj

\* DiGraph.add_edge(u, v, view=view): adds the nodes; an edge that exists
\* keeps its attribute dict and has 'view' replaced in it.
add_edge(g, u, v, view) ==
    [nodes |-> g.nodes \cup {u, v},
     adj   |-> [e \in DOMAIN g.adj \cup {<<u, v>>} |->
                  IF e # <<u, v>> THEN g.adj[e]
                  ELSE IF has_edge(g, u, v) /\ "weight" \in DOMAIN g.adj[e]
                       THEN [view |-> view, weight |-> g.adj[e].weight]
                       ELSE [view |-> view]]]

\* DiGraph.remove_edge(u, v) for an edge that exists: the nodes stay.
remove_edge(g, u, v) ==
    [nodes |-> g.nodes,
     adj   |-> [e \in DOMAIN g.adj \ {<<u, v>>} |-> g.adj[e]]]

\* self.G[u][v]['view'] = view (the views are mutated in place).
set_view(g, u, v, view) ==
    [g EXCEPT !.adj[<<u, v>>] =
        IF "weight" \in DOMAIN @ THEN [view |-> view, weight |-> @.weight]
        ELSE [view |-> view]]

Init ==
    /\ channel_id_to_addresses = <<>>
    /\ G = [nodes |-> {}, adj |-> <<>>]
    /\ call = [op |-> "init"]
    /\ exc = "none"
    /\ log = ""
    /\ result = <<>>
    /\ closed_ids = {}
    /\ calls = 0
    /\ queries = 0
    /\ rounds = 0
    /\ inflight = <<>>

(***************************************************************************)
(* Contract event listener functions                                       *)
(***************************************************************************)
view_of(g, u, v) == g.adj[<<u, v>>].view

\* Mutant of handle_channel_opened_event: the edge participant2->participant1 is not added.
handle_channel_opened_event_one_way(channel_identifier, participant1, participant2, settle_timeout) ==
    LET view1 == ChannelView(channel_identifier, participant1, participant2, settle_timeout, 0)
    IN  /\ calls < MaxCalls
        /\ queries = 0
        /\ channel_id_to_addresses' =
              [c \in DOMAIN channel_id_to_addresses \cup {channel_identifier} |->
                  IF c = channel_identifier THEN <<participant1, participant2>>
                  ELSE channel_id_to_addresses[c]]
        /\ G' = add_edge(G, participant1, participant2, view1)
        /\ call' = [op |-> "opened", channel_identifier |-> channel_identifier,
                    participant1 |-> participant1, participant2 |-> participant2,
                    settle_timeout |-> settle_timeout]
        /\ exc' = "none"
        /\ log' = ""
        /\ result' = <<>>
        /\ rounds' = 0
        /\ closed_ids' = closed_ids \ {channel_identifier}
        /\ calls' = calls + 1
        /\ UNCHANGED <<queries, inflight>>

handle_channel_opened_event(channel_identifier, participant1, participant2, settle_timeout) ==
    LET view1 == ChannelView(channel_identifier, participant1, participant2, settle_timeout, 0)
        \* the keywords of view2 are written in the other order and name the same values
        view2 == ChannelView(channel_identifier, participant1, participant2, settle_timeout, 0)
        G1 == add_edge(G, participant1, participant2, view1)
        G2 == add_edge(G1, participant2, participant1, view2)
    IN  /\ calls < MaxCalls
        /\ queries = 0
        /\ channel_id_to_addresses' =
              [c \in DOMAIN channel_id_to_addresses \cup {channel_identifier} |->
                  IF c = channel_identifier THEN <<participant1, participant2>>
                  ELSE channel_id_to_addresses[c]]
        /\ G' = G2
        /\ call' = [op |-> "opened", channel_identifier |-> channel_identifier,
                    participant1 |-> participant1, participant2 |-> participant2,
                    settle_timeout |-> settle_timeout]
        /\ exc' = "none"
        /\ log' = ""
        /\ result' = <<>>
        /\ rounds' = 0
        /\ closed_ids' = closed_ids \ {channel_identifier}
        /\ calls' = calls + 1
        /\ UNCHANGED <<queries, inflight>>

UnknownDeposit == "Received ChannelNewDeposit event for unknown channel"

ReceiverMismatch == "Receiver in ChannelNewDeposit does not fit the internal channel"

UnknownClosed == "Received ChannelClosed event for unknown channel"

\* Mutant of deposit_edge: 'else' in place of 'elif receiver == participant2'.
deposit_edge_else(receiver, participant1, participant2) ==
    IF receiver = participant1 THEN <<participant1, participant2>>
    ELSE <<participant2, participant1>>

\* Mutant of deposit_edge: the deposit goes to the partner's direction.
deposit_edge_reversed(receiver, participant1, participant2) ==
    IF receiver = participant1 THEN <<participant2, participant1>>
    ELSE IF receiver = participant2 THEN <<participant1, participant2>>
    ELSE <<>>

\* The edge whose view a deposit of receiver updates: out of the receiver,
\* towards the other participant; <<>> when the receiver is neither.
deposit_edge(receiver, participant1, participant2) ==
    IF receiver = participant1 THEN <<participant1, participant2>>
    ELSE IF receiver = participant2 THEN <<participant2, participant1>>
    ELSE <<>>

handle_channel_new_deposit_event(channel_identifier, receiver, total_deposit) ==
    LET known == channel_identifier \in DOMAIN channel_id_to_addresses
        participant1 == channel_id_to_addresses[channel_identifier][1]
        participant2 == channel_id_to_addresses[channel_identifier][2]
        edge == deposit_edge(receiver, participant1, participant2)
    IN  /\ calls < MaxCalls
        /\ queries = 0
        /\ IF ~known
           THEN /\ G' = G                     \* KeyError of the mapping, caught
                /\ log' = UnknownDeposit
           ELSE IF edge = <<>>
           THEN /\ G' = G
                /\ log' = ReceiverMismatch
           ELSE IF ~has_edge(G, edge[1], edge[2])
           THEN /\ G' = G                     \* KeyError of self.G[..][..], caught
                /\ log' = UnknownDeposit
           ELSE /\ G' = set_view(G, edge[1], edge[2],
                          update_capacity(view_of(G, edge[1], edge[2]),
                                          <<>>, <<>>, <<total_deposit>>, <<>>))
                /\ log' = ""
        /\ call' = [op |-> "deposit", channel_identifier |-> channel_identifier,
                    receiver |-> receiver, total_deposit |-> total_deposit]
        /\ exc' = "none"
        /\ result' = <<>>
        /\ rounds' = 0
        /\ calls' = calls + 1
        /\ UNCHANGED <<channel_id_to_addresses, closed_ids, queries, inflight>>

handle_channel_closed_event(channel_identifier) ==
    LET known == channel_identifier \in DOMAIN channel_id_to_addresses
        participant1 == channel_id_to_addresses[channel_identifier][1]
        participant2 == channel_id_to_addresses[channel_identifier][2]
        popped == [c \in DOMAIN channel_id_to_addresses \ {channel_identifier} |->
                      channel_id_to_addresses[c]]
        G1 == remove_edge(G, participant1, participant2)
        G2 == remove_edge(G1, participant2, participant1)
    IN  /\ calls < MaxCalls
        /\ queries = 0
        /\ IF ~known
           THEN /\ UNCHANGED <<channel_id_to_addresses, G, closed_ids>>
                /\ exc' = "none"
                /\ log' = UnknownClosed      \* KeyError of pop, caught
           ELSE /\ channel_id_to_addresses' = popped
                /\ closed_ids' = closed_ids \cup {channel_identifier}
                /\ log' = ""
                \* remove_edge of a missing edge raises NetworkXError, which is no KeyError
                /\ IF ~has_edge(G, participant1, participant2)
                   THEN G' = G /\ exc' = "NetworkXError"
                   ELSE IF ~has_edge(G1, participant2, participant1)
                   THEN G' = G1 /\ exc' = "NetworkXError"
                   ELSE G' = G2 /\ exc' = "none"
        /\ call' = [op |-> "closed", channel_identifier |-> channel_identifier]
        /\ result' = <<>>
        /\ rounds' = 0
        /\ calls' = calls + 1
        /\ UNCHANGED <<queries, inflight>>

(***************************************************************************)
(* Balance updates                                                         *)
(***************************************************************************)
\* <<channel_view_to_partner, channel_view_from_partner>>, or <<>> for the
\* KeyError of a missing edge.  The channel identifier is not read.
get_channel_views_for_partner(channel_identifier, updating_participant, other_participant) ==
    IF has_edge(G, updating_participant, other_participant)
       /\ has_edge(G, other_participant, updating_participant)
    THEN <<view_of(G, updating_participant, other_participant),
           view_of(G, other_participant, updating_participant)>>
    ELSE <<>>

\* Mutant of update_views: reveal_timeout is passed to both update_capacity calls.
update_views_reveal_both(g, updating_participant, other_participant, updating_nonce, other_nonce, updating_capacity, other_capacity, reveal_timeout) ==
    LET g1 == set_view(g, updating_participant, other_participant,
                  update_capacity(view_of(g, updating_participant, other_participant),
                                  <<updating_nonce>>, <<updating_capacity>>,
                                  <<>>, <<reveal_timeout>>))
    IN  set_view(g1, other_participant, updating_participant,
            update_capacity(view_of(g1, other_participant, updating_participant),
                            <<other_nonce>>, <<other_capacity>>, <<>>, <<reveal_timeout>>))

\* The two update_capacity calls of the handler, on the views of g.
update_views(g, updating_participant, other_participant, updating_nonce, other_nonce, updating_capacity, other_capacity, reveal_timeout) ==
    LET g1 == set_view(g, updating_participant, other_participant,
                  update_capacity(view_of(g, updating_participant, other_participant),
                                  <<updating_nonce>>, <<updating_capacity>>,
                                  <<>>, <<reveal_timeout>>))
    \* the second view is read after the first update: with equal
    \* participants both names denote one view
    IN  set_view(g1, other_participant, updating_participant,
            update_capacity(view_of(g1, other_participant, updating_participant),
                            <<other_nonce>>, <<other_capacity>>, <<>>, <<>>))

handle_channel_balance_update_message(channel_identifier, updating_participant, other_participant, updating_nonce, other_nonce, updating_capacity, other_capacity, reveal_timeout) ==
    LET views == get_channel_views_for_partner(
                     channel_identifier, updating_participant, other_participant)
    IN  /\ calls < MaxCalls
        /\ queries = 0
        /\ IF views = <<>>
           THEN G' = G /\ exc' = "KeyError"
           ELSE /\ G' = update_views(G, updating_participant, other_participant,
                            updating_nonce, other_nonce, updating_capacity,
                            other_capacity, reveal_timeout)
                /\ exc' = "none"
        /\ call' = [op |-> "balance_update", channel_identifier |-> channel_identifier,
                    updating_participant |-> updating_participant,
                    other_participant |-> other_participant,
                    updating_nonce |-> updating_nonce, other_nonce |-> other_nonce,
                    updating_capacity |-> updating_capacity,
                    other_capacity |-> other_capacity,
                    reveal_timeout |-> reveal_timeout]
        /\ log' = ""
        /\ result' = <<>>
        /\ rounds' = 0
        /\ calls' = calls + 1
        /\ UNCHANGED <<channel_id_to_addresses, closed_ids, queries, inflight>>

(***************************************************************************)
(* Path search                                                             *)
(***************************************************************************)
\* Sequences of distinct nodes: the candidates for a simple path.
NodeSeqs == UNION {[1..n -> Address] : n \in 1..Cardinality(Address)}

SimpleNodeSeqs == {p \in NodeSeqs : \A i, j \in 1..Len(p) : i # j => p[i] # p[j]}

DenseNodeSeqs == UNION {[1..n -> DenseAddress] : n \in 1..Cardinality(DenseAddress)}

DenseSimpleNodeSeqs == {p \in DenseNodeSeqs : \A i, j \in 1..Len(p) : i # j => p[i] # p[j]}

SimpleSeqsOver(nodes) == IF nodes \subseteq Address THEN SimpleNodeSeqs ELSE DenseSimpleNodeSeqs

Range(f) == {f[i] : i \in DOMAIN f}

\* Mutant of Min: the first argument is returned unclamped.
Min_unclamped(a, b) == a

Min(a, b) == IF a < b THEN a ELSE b

\* visited.get(channel_id, 0)
visited_get(visited, channel_id) ==
    IF channel_id \in DOMAIN visited THEN visited[channel_id] ELSE 0

\* Mutant of edge_weight: the base weight of a hop is left out.
edge_weight_without_base(visited, attr) == visited_get(visited, attr.view.channel_id)

edge_weight(visited, attr) == 1 + visited_get(visited, attr.view.channel_id)

\* Mutant of update_edge_weights: the weights an earlier query left on the
\* edges are kept while no penalty is recorded.
update_edge_weights_when_visited(g, visited) ==
    IF visited = <<>> /\ \A e \in DOMAIN g.adj : "weight" \in DOMAIN g.adj[e]
    THEN g
    ELSE [g EXCEPT !.adj = [e \in DOMAIN g.adj |->
             [view |-> g.adj[e].view, weight |-> edge_weight(visited, g.adj[e])]]]

\* for node1, node2 in self.G.edges(): edge['weight'] = self.edge_weight(visited, edge)
update_edge_weights(g, visited) ==
    [g EXCEPT !.adj = [e \in DOMAIN g.adj |->
        [view |-> g.adj[e].view, weight |-> edge_weight(visited, g.adj[e])]]]

\* check_path_constraints from hop i on: "True", "False", or the
\* ZeroDivisionError of settle_timeout / reveal_timeout.
RECURSIVE check_hops(_, _, _, _)
check_hops(g, value, path, i) ==
    IF i >= Len(path) THEN "True"
    ELSE LET channel == g.adj[<<path[i], path[i + 1]>>].view
         IN  IF value > channel.capacity THEN "False"
             ELSE IF channel.reveal_timeout = 0 THEN "ZeroDivisionError"
             \* ratio < DEFAULT_SETTLE_TO_REVEAL_TIMEOUT_RATIO, for a positive reveal_timeout
             ELSE IF channel.settle_timeout <
                        DEFAULT_SETTLE_TO_REVEAL_TIMEOUT_RATIO * channel.reveal_timeout
             THEN "False"
             ELSE check_hops(g, value, path, i + 1)

\* Mutant of check_path_constraints: the capacity of the hops is not compared.
check_path_constraints_without_capacity(g, value, path) == check_hops(g, 0, path, 1)

check_path_constraints(g, value, path) == check_hops(g, value, path, 1)

\* nx.shortest_simple_paths(G, source, target, weight='weight') yields the
\* simple paths from source to target by increasing length; the order of
\* paths of equal length is the library's.
simple_paths(g, source, target) ==
    {p \in SimpleSeqsOver(g.nodes \cup {source, target}) :
        /\ p[1] = source
        /\ p[Len(p)] = target
        /\ \A i \in 1..(Len(p) - 1) : has_edge(g, p[i], p[i + 1])}

RECURSIVE path_length_from(_, _, _)
path_length_from(g, path, i) ==
    IF i >= Len(path) THEN 0
    ELSE g.adj[<<path[i], path[i + 1]>>].weight + path_length_from(g, path, i + 1)

path_length(g, path) == path_length_from(g, path, 1)

\* visited[channel_id] = visited.get(channel_id, 0) + diversity_penalty, hop by hop
RECURSIVE update_visited(_, _, _, _, _)
update_visited(g, visited, path, diversity_penalty, i) ==
    IF i >= Len(path) THEN visited
    ELSE LET channel_id == g.adj[<<path[i], path[i + 1]>>].view.channel_id
             next == [c \in DOMAIN visited \cup {channel_id} |->
                         IF c = channel_id
                         THEN visited_get(visited, channel_id) + diversity_penalty
                         ELSE visited[c]]
         IN  update_visited(g, next, path, diversity_penalty, i + 1)

\* Mutant of is_new: duplicates are not skipped.
is_new_always(paths, p) == TRUE

\* path not in paths
is_new(paths, p) == p \notin Range(paths)

\* An outcome of the loop: the exception, the paths accepted, the graph with
\* the weights written, and the number of rounds begun.
Raised(g, e, paths, r) == [exc |-> e, paths |-> paths, G |-> g, rounds |-> r]

Returned(g, paths, r) == [exc |-> "none", paths |-> paths, G |-> g, rounds |-> r]

\* The rounds of the loop of get_paths, n of them left: the set of ways the
\* loop can end, one for each order in which paths of equal length can be
\* enumerated.
RECURSIVE search(_, _, _, _, _)
search(g, q, n, visited, paths) ==
    IF n <= 0 THEN {Returned(g, paths, Len(paths))}
    ELSE
    LET gw == update_edge_weights(g, visited)
        round == Len(paths) + 1  \* every earlier round accepted a path
        all_paths == simple_paths(gw, q.source, q.target)
        raising == {p \in all_paths :
                       check_path_constraints(gw, q.value, p) = "ZeroDivisionError"}
        \* skip duplicates and invalid paths
        accepted == {p \in all_paths :
                        /\ check_path_constraints(gw, q.value, p) = "True"
                        /\ is_new(paths, p)}
        shortest == {p \in accepted :
                        \A p2 \in accepted : path_length(gw, p) <= path_length(gw, p2)}
        accept(p) ==
            LET visited2 == update_visited(gw, visited, p, q.diversity_penalty, 1)
                paths2 == Append(paths, p)
            IN  IF Len(paths2) >= q.max_paths THEN {Returned(gw, paths2, round)}
                ELSE search(gw, q, n - 1, visited2, paths2)
    IN  IF q.source \notin gw.nodes \/ q.target \notin gw.nodes
        THEN {Raised(gw, "NodeNotFound", paths, round)}
        ELSE IF all_paths = {}
        THEN {Raised(gw, "NetworkXNoPath", paths, round)}
        ELSE IF accepted = {}
        THEN IF raising # {}
             THEN {Raised(gw, "ZeroDivisionError", paths, round)}
             ELSE {Returned(gw, paths, round)}  \* StopIteration: break
        ELSE
            \* a path that raises and is enumerated before the first accepted one
            (IF \E r \in raising : \E p \in shortest : path_length(gw, r) <= path_length(gw, p)
             THEN {Raised(gw, "ZeroDivisionError", paths, round)} ELSE {})
            \cup
            (IF \E r \in raising : \E p \in shortest : path_length(gw, r) < path_length(gw, p)
             THEN {} ELSE UNION {accept(p) : p \in shortest})

\* fee += self.G[node1][node2]['view'].relative_fee, hop by hop
RECURSIVE fee_from(_, _, _)
fee_from(g, path, i) ==
    IF i >= Len(path) THEN 0
    ELSE g.adj[<<path[i], path[i + 1]>>].view.relative_fee + fee_from(g, path, i + 1)

\* get_paths with hop_bias = 1; the fee summed over a path is not used
get_paths(source, target, value, max_paths, diversity_penalty) ==
    LET q == [source |-> source, target |-> target, value |-> value,
              max_paths |-> Min(max_paths, MAX_PATHS_PER_REQUEST),
              diversity_penalty |-> diversity_penalty]
    IN  /\ calls < MaxCalls
        /\ \E out \in search(G, q, q.max_paths, <<>>, <<>>) :
              /\ G' = out.G
              /\ exc' = out.exc
              /\ rounds' = out.rounds
              /\ result' = IF out.exc = "none"
                           THEN [i \in 1..Len(out.paths) |->
                                    [path |-> out.paths[i], estimated_fee |-> 0]]
                           ELSE <<>>
        /\ call' = [op |-> "get_paths", source |-> source, target |-> target,
                    value |-> value, max_paths |-> max_paths,
                    diversity_penalty |-> diversity_penalty]
        /\ log' = ""
        /\ calls' = calls + 1
        /\ queries' = queries + 1
        /\ UNCHANGED <<channel_id_to_addresses, closed_ids, inflight>>

Next ==
    \/ \E c \in ChannelIdentifier :
          handle_channel_opened_event(c, chain_participants(c)[1],
              chain_participants(c)[2], chain_settle_timeout(c))
    \/ \E c \in ChannelIdentifier, r \in Address, d \in Amount :
          handle_channel_new_deposit_event(c, r, d)
    \/ \E c \in ChannelIdentifier : handle_channel_closed_event(c)
    \/ \E c \in ChannelIdentifier, u, o \in Address :
          \* an authenticated message names a channel of the chain and its two
          \* participants; when its lookup raises none of its values is read,
          \* so one value stands for all
          LET read == get_channel_views_for_partner(c, u, o) # <<>>
          IN  /\ {u, o} = {chain_participants(c)[1], chain_participants(c)[2]}
              /\ \E un, on \in IF read THEN Nonce ELSE {1},
                    uc, oc \in IF read THEN Amount ELSE {0},
                    rt \in IF read THEN RevealTimeout ELSE {0} :
                    handle_channel_balance_update_message(c, u, o, un, on, uc, oc, rt)
    \/ /\ queries < MaxQueries
       /\ \E s, t \in Address, v \in Amount, m \in MaxPaths, p \in 0..MaxPenalty :
             get_paths(s, t, v, m, p)

Spec == Init /\ [][Next]_vars

(***************************************************************************)
(* An established network: the denser chain's channels are open, and a     *)
(* few calls are made on it.                                               *)
(***************************************************************************)
\* The graph after handle_channel_opened_event of the first i channels of DenseChain.
RECURSIVE opened_graph(_)
opened_graph(i) ==
    IF i = 0 THEN [nodes |-> {}, adj |-> <<>>]
    ELSE LET ch == DenseChain[i]
             view == ChannelView(ch.channel_identifier, ch.participant1,
                                 ch.participant2, ch.settle_timeout, 0)
         IN  add_edge(add_edge(opened_graph(i - 1), ch.participant1, ch.participant2, view),
                      ch.participant2, ch.participant1, view)

InitDense ==
    /\ channel_id_to_addresses =
          [c \in {DenseChain[i].channel_identifier : i \in DOMAIN DenseChain} |->
              LET ch == CHOOSE x \in Range(DenseChain) : x.channel_identifier = c
              IN  <<ch.participant1, ch.participant2>>]
    /\ G = opened_graph(Len(DenseChain))
    /\ call = [op |-> "init"]
    /\ exc = "none"
    /\ log = ""
    /\ result = <<>>
    /\ closed_ids = {}
    /\ calls = 0
    /\ queries = 0
    /\ rounds = 0
    /\ inflight = <<>>

\* The owner of edge u->v sets the relative fee of its view.
set_relative_fee(u, v, fee) ==
    /\ calls < MaxCalls
    /\ queries = 0
    /\ has_edge(G, u, v)
    /\ G' = set_view(G, u, v, [view_of(G, u, v) EXCEPT !.relative_fee = fee])
    /\ call' = [op |-> "set_relative_fee", u |-> u, v |-> v, fee |-> fee]
    /\ exc' = "none"
    /\ log' = ""
    /\ result' = <<>>
    /\ rounds' = 0
    /\ calls' = calls + 1
    /\ UNCHANGED <<channel_id_to_addresses, closed_ids, queries, inflight>>

NextDense ==
    /\ calls < DenseCalls
    /\ \/ \E i \in DOMAIN DenseChain, flip \in BOOLEAN, un, on \in Nonce,
             uc, oc \in Amount, rt \in RevealTimeout :
             LET ch == DenseChain[i]
                 u == IF flip THEN ch.participant2 ELSE ch.participant1
                 o == IF flip THEN ch.participant1 ELSE ch.participant2
             IN  handle_channel_balance_update_message(
                     ch.channel_identifier, u, o, un, on, uc, oc, rt)
       \/ \E u, v \in DenseAddress, fee \in 0..MaxFee : set_relative_fee(u, v, fee)
       \/ /\ queries < MaxQueries
          /\ \E s, t \in DenseAddress, v \in Amount, m \in MaxPaths, p \in 0..MaxPenalty :
                get_paths(s, t, v, m, p)

SpecDense == InitDense /\ [][NextDense]_vars

\* Queries in a row on the established network, on which nothing is
\* deposited: the queries are for value 0, between the chain's addresses.
NextRepeat ==
    /\ calls < DenseCalls
    /\ \E s, t \in Address, m \in MaxPaths, p \in 0..MaxPenalty :
          get_paths(s, t, 0, m, p)

SpecRepeat == InitDense /\ [][NextRepeat]_vars

(***************************************************************************)
(* Threads: the token network holds no lock, so a path query of one thread *)
(* can run between the two update_capacity calls of a balance update of    *)
(* another.                                                                *)
(***************************************************************************)
\* handle_channel_balance_update_message up to and including the update of
\* channel_view_to_partner.
balance_update_to_partner(channel_identifier, updating_participant, other_participant, updating_nonce, other_nonce, updating_capacity, other_capacity, reveal_timeout) ==
    LET views == get_channel_views_for_partner(
                     channel_identifier, updating_participant, other_participant)
        message == [op |-> "balance_update", channel_identifier |-> channel_identifier,
                    updating_participant |-> updating_participant,
                    other_participant |-> other_participant,
                    updating_nonce |-> updating_nonce, other_nonce |-> other_nonce,
                    updating_capacity |-> updating_capacity,
                    other_capacity |-> other_capacity,
                    reveal_timeout |-> reveal_timeout]
    IN  /\ calls < MaxCalls
        /\ queries = 0
        /\ inflight = <<>>
        /\ IF views = <<>>
           THEN /\ G' = G
                /\ exc' = "KeyError"
                /\ inflight' = <<>>
           ELSE /\ G' = set_view(G, updating_participant, other_participant,
                            update_capacity(views[1], <<updating_nonce>>,
                                <<updating_capacity>>, <<>>, <<reveal_timeout>>))
                /\ exc' = "none"
                /\ inflight' = [message |-> message, before |-> views]
        /\ call' = message
        /\ log' = ""
        /\ result' = <<>>
        /\ rounds' = 0
        /\ calls' = calls + 1
        /\ UNCHANGED <<channel_id_to_addresses, closed_ids, queries>>

\* The rest of handle_channel_balance_update_message: the update of
\* channel_view_from_partner.
balance_update_from_partner ==
    LET m == inflight.message
    IN  /\ inflight # <<>>
        /\ G' = set_view(G, m.other_participant, m.updating_participant,
                    update_capacity(view_of(G, m.other_participant, m.updating_participant),
                        <<m.other_nonce>>, <<m.other_capacity>>, <<>>, <<>>))
        /\ inflight' = <<>>
        /\ UNCHANGED <<channel_id_to_addresses, call, exc, log, result, closed_ids,
                       calls, queries, rounds>>

NextThreads ==
    \/ /\ calls < DenseCalls
       /\ \E i \in DOMAIN DenseChain, flip \in BOOLEAN, un, on \in Nonce,
             uc, oc \in Amount, rt \in RevealTimeout :
             LET ch == DenseChain[i]
                 u == IF flip THEN ch.participant2 ELSE ch.participant1
                 o == IF flip THEN ch.participant1 ELSE ch.participant2
             IN  balance_update_to_partner(
                     ch.channel_identifier, u, o, un, on, uc, oc, rt)
    \/ balance_update_from_partner
    \/ /\ calls < DenseCalls
       /\ queries < MaxQueries
       /\ \E s, t \in Address, v \in Amount, m \in MaxPaths, p \in 0..MaxPenalty :
             get_paths(s, t, v, m, p)

SpecThreads == InitDense /\ [][NextThreads]_vars

(***************************************************************************)
(* Properties                                                              *)
(***************************************************************************)
Participants(c) == {channel_id_to_addresses[c][1], channel_id_to_addresses[c][2]}

Hops(path) == {<<path[i], path[i + 1]>> : i \in 1..(Len(path) - 1)}

\* An edge a transfer of value can use: enough capacity and a settle
\* timeout of at least the minimum ratio times the reveal timeout.
Usable(v, value) ==
    /\ v.capacity >= value
    /\ v.reveal_timeout > 0
    /\ v.settle_timeout >= DEFAULT_SETTLE_TO_REVEAL_TIMEOUT_RATIO * v.reveal_timeout

\* The simple routes from source to target in the graph all of whose edges
\* are usable.
QualifyingRoutes(source, target, value) ==
    {p \in SimpleSeqsOver(G.nodes) :
        /\ p[1] = source
        /\ p[Len(p)] = target
        /\ Range(p) \subseteq G.nodes
        /\ \A h \in Hops(p) : has_edge(G, h[1], h[2]) /\ Usable(view_of(G, h[1], h[2]), value)}

\* C1: every channel identifier in channel_id_to_addresses, with participants
\* (A, B), has both directed edges A->B and B->A in the graph, and the views
\* on both edges carry that identifier.
C1_MappedChannelHasBothEdges ==
    \A c \in DOMAIN channel_id_to_addresses :
        LET a == channel_id_to_addresses[c][1]
            b == channel_id_to_addresses[c][2]
        IN  /\ has_edge(G, a, b)
            /\ has_edge(G, b, a)
            /\ view_of(G, a, b).channel_id = c
            /\ view_of(G, b, a).channel_id = c

\* C2: no call of handle_channel_opened_event, handle_channel_new_deposit_event
\* or handle_channel_closed_event raises, in whatever order and however often
\* the events are delivered.
C2_EventHandlersReturnNormally ==
    call.op \in {"opened", "deposit", "closed"} => exc = "none"

\* C3: a deposit or closed event of a channel identifier that is not in
\* channel_id_to_addresses, and a deposit whose receiver is neither
\* participant of its channel, returns normally and leaves the mapping and
\* the whole graph unchanged.
C3_UnknownEventIsDropped ==
    [][ ( \/ /\ call'.op \in {"deposit", "closed"}
             /\ call'.channel_identifier \notin DOMAIN channel_id_to_addresses
          \/ /\ call'.op = "deposit"
             /\ call'.channel_identifier \in DOMAIN channel_id_to_addresses
             /\ call'.receiver \notin Participants(call'.channel_identifier) )
        => ( /\ exc' = "none"
             /\ G' = G
             /\ channel_id_to_addresses' = channel_id_to_addresses ) ]_vars

\* C3, reached: a deposit of a known channel with live edges whose receiver
\* is neither participant has been handled.
C3_Witness ==
    /\ call.op = "deposit"
    /\ call.channel_identifier \in DOMAIN channel_id_to_addresses
    /\ call.receiver \notin Participants(call.channel_identifier)
    /\ log = ReceiverMismatch
    /\ G.adj # <<>>

\* C4: a balance update whose channel identifier is unknown, or whose
\* participants have no edge belonging to that identifier, raises an error
\* and changes no view: it is never applied to the views of another channel
\* that joins the same participants.
C4_ForeignBalanceUpdateIsAnError ==
    [][ ( /\ call'.op = "balance_update"
          /\ ~( /\ call'.channel_identifier \in DOMAIN channel_id_to_addresses
                /\ has_edge(G, call'.updating_participant, call'.other_participant)
                /\ view_of(G, call'.updating_participant,
                           call'.other_participant).channel_id = call'.channel_identifier ) )
        => (exc' # "none" /\ G' = G) ]_vars

\* C5: after handle_channel_closed_event of a known identifier, and until
\* that identifier is opened again, get_channel_views_for_partner for it and
\* its participants (in either order) fails, and no path get_paths returns
\* has a hop whose view carries the identifier.
C5_ClosedChannelIsGone ==
    \A c \in closed_ids :
        /\ get_channel_views_for_partner(
               c, chain_participants(c)[1], chain_participants(c)[2]) = <<>>
        /\ get_channel_views_for_partner(
               c, chain_participants(c)[2], chain_participants(c)[1]) = <<>>
        /\ call.op = "get_paths" =>
              \A i \in 1..Len(result) : \A h \in Hops(result[i].path) :
                  view_of(G, h[1], h[2]).channel_id # c

C7_BalanceUpdateSetsBothDirections ==
    [][ ( /\ call'.op = "balance_update"
          /\ has_edge(G, call'.updating_participant, call'.other_participant)
          /\ has_edge(G, call'.other_participant, call'.updating_participant) )
        => LET u == call'.updating_participant
               o == call'.other_participant
           IN  /\ exc' = "none"
               /\ view_of(G', u, o).nonce = call'.updating_nonce
               /\ view_of(G', u, o).capacity = call'.updating_capacity
               /\ view_of(G', u, o).reveal_timeout = call'.reveal_timeout
               /\ view_of(G', o, u).nonce = call'.other_nonce
               /\ view_of(G', o, u).capacity = call'.other_capacity
               /\ view_of(G', o, u).reveal_timeout = view_of(G, o, u).reveal_timeout
               /\ view_of(G', u, o).settle_timeout = view_of(G, u, o).settle_timeout
               /\ view_of(G', o, u).settle_timeout = view_of(G, o, u).settle_timeout
               /\ channel_id_to_addresses' = channel_id_to_addresses
               /\ G'.nodes = G.nodes
               /\ DOMAIN G'.adj = DOMAIN G.adj
               /\ \A e \in DOMAIN G.adj :
                     e \notin {<<u, o>>, <<o, u>>} => G'.adj[e] = G.adj[e] ]_vars

\* C7, reached: a balance update has set different capacities on the two
\* directions and a reveal timeout that the reverse direction does not hold.
C7_Witness ==
    /\ call.op = "balance_update"
    /\ exc = "none"
    /\ call.updating_capacity # call.other_capacity
    /\ view_of(G, call.updating_participant, call.other_participant).capacity
          = call.updating_capacity
    /\ view_of(G, call.other_participant, call.updating_participant).capacity
          = call.other_capacity
    /\ view_of(G, call.other_participant, call.updating_participant).reveal_timeout
          # call.reveal_timeout

\* C8: every path get_paths returns starts at source, ends at target, and
\* each consecutive pair of its nodes is joined by an existing edge whose
\* capacity is at least value and whose settle_timeout / reveal_timeout is
\* at least the minimum ratio.
C8_ReturnedPathsAreUsable ==
    (call.op = "get_paths" /\ exc = "none") =>
        \A i \in 1..Len(result) :
            LET path == result[i].path
            IN  /\ path[1] = call.source
                /\ path[Len(path)] = call.target
                /\ \A h \in Hops(path) :
                      /\ has_edge(G, h[1], h[2])
                      /\ Usable(view_of(G, h[1], h[2]), call.value)

\* C8, reached: a query for a positive value has returned a path, and some
\* edge of the graph cannot carry that value.
C8_Witness ==
    /\ call.op = "get_paths"
    /\ call.value > 0
    /\ Len(result) >= 1
    /\ Len(result[1].path) >= 2
    /\ \E e \in DOMAIN G.adj : ~Usable(G.adj[e].view, call.value)

\* C9: when no qualifying route exists for a query, get_paths raises nothing
\* and returns an empty list; when fewer than max_paths qualifying routes
\* exist it raises nothing and returns a list of no more than those routes.
C9_ExhaustionIsNotAnError ==
    call.op = "get_paths" =>
        LET routes == QualifyingRoutes(call.source, call.target, call.value)
        IN  /\ routes = {} => (exc = "none" /\ result = <<>>)
            /\ Cardinality(routes) < Min(call.max_paths, MAX_PATHS_PER_REQUEST) =>
                  /\ exc = "none"
                  /\ Len(result) <= Cardinality(routes)
                  /\ \A i \in 1..Len(result) : result[i].path \in routes

\* C10: no two paths in the result of one get_paths call are the same node
\* sequence.
C10_ReturnedPathsAreDistinct ==
    call.op = "get_paths" =>
        \A i, j \in 1..Len(result) : i # j => result[i].path # result[j].path

\* C10, reached: a query without diversity penalty has returned two paths,
\* the second found while the first was again the shortest.
C10_Witness ==
    /\ call.op = "get_paths"
    /\ call.diversity_penalty = 0
    /\ Len(result) = 2
    /\ Len(result[1].path) < Len(result[2].path)

\* C11: get_paths does not write to the graph: after a query the edge set,
\* every attribute stored on every edge and channel_id_to_addresses are what
\* they were before it.
C11_QueryDoesNotWriteTheGraph ==
    [][ call'.op = "get_paths"
        => (G' = G /\ channel_id_to_addresses' = channel_id_to_addresses) ]_vars

\* C16: for every live channel between a and b the view on a->b names a as
\* its own participant and b as the partner, the view on b->a names b as its
\* own participant and a as the partner, both hold the same settle_timeout,
\* and no deposit or balance update changes a settle_timeout.
C16_ViewsNameTheirOwnParticipant ==
    [][ /\ \A c \in DOMAIN channel_id_to_addresses' :
              LET a == channel_id_to_addresses'[c][1]
                  b == channel_id_to_addresses'[c][2]
              IN  (has_edge(G', a, b) /\ has_edge(G', b, a)) =>
                      /\ view_of(G', a, b).participant1 = a
                      /\ view_of(G', a, b).participant2 = b
                      /\ view_of(G', b, a).participant1 = b
                      /\ view_of(G', b, a).participant2 = a
                      /\ view_of(G', a, b).settle_timeout = view_of(G', b, a).settle_timeout
        /\ call'.op \in {"deposit", "balance_update"} =>
              \A e \in DOMAIN G.adj :
                  G'.adj[e].view.settle_timeout = G.adj[e].view.settle_timeout ]_vars

\* C17: no deposit event and no balance update lowers the deposit stored on
\* a directed edge.
C17_DepositNeverDecreases ==
    [][ call'.op \in {"deposit", "balance_update"} =>
            \A e \in DOMAIN G.adj :
                G'.adj[e].view.deposit >= G.adj[e].view.deposit ]_vars

\* C20: the edge set is symmetric and paired: edge u->v exists if and only if
\* edge v->u exists, and the views on the two edges carry the same channel
\* identifier.
C20_EdgesArePaired ==
    \A u, v \in Address :
        /\ has_edge(G, u, v) <=> has_edge(G, v, u)
        /\ has_edge(G, u, v) => view_of(G, u, v).channel_id = view_of(G, v, u).channel_id

\* C20, reached: a known channel has been closed without an exception while
\* the edges of another pair stay in the graph.
C20_Witness ==
    /\ call.op = "closed"
    /\ exc = "none"
    /\ log = ""
    /\ G.adj # <<>>

\* The number of paths accepted before round k of the last query that
\* traverse channel identifier c, in either direction.
Traversals(c, k) ==
    Cardinality({j \in 1..(k - 1) :
        \E h \in Hops(result[j].path) : view_of(G, h[1], h[2]).channel_id = c})

\* The weight of edge e in round k: 1 + diversity_penalty * Traversals.
RoundWeight(e, k) ==
    1 + call.diversity_penalty * Traversals(view_of(G, e[1], e[2]).channel_id, k)

RECURSIVE RoundLengthFrom(_, _, _)
RoundLengthFrom(path, k, i) ==
    IF i >= Len(path) THEN 0
    ELSE RoundWeight(<<path[i], path[i + 1]>>, k) + RoundLengthFrom(path, k, i + 1)

\* The total weight of path in round k.
RoundLength(path, k) == RoundLengthFrom(path, k, 1)

C19_ReturnsEveryQualifyingRoute ==
    call.op = "get_paths" =>
        LET N == Cardinality(QualifyingRoutes(call.source, call.target, call.value))
            wanted == Min(Min(call.max_paths, MAX_PATHS_PER_REQUEST), N)
        IN  /\ exc = "none"
            /\ Len(result) = (IF wanted < 0 THEN 0 ELSE wanted)

\* The graph without the weights that queries have written on its edges.
Unweighted(g) == [g EXCEPT !.adj = [e \in DOMAIN g.adj |-> [view |-> g.adj[e].view]]]

\* What the query of a get_paths call c can raise and return on graph g, one
\* outcome for each order in which paths of equal length can be enumerated.
Outcomes(g, c) ==
    LET limit == IF c.max_paths < MAX_PATHS_PER_REQUEST
                 THEN c.max_paths ELSE MAX_PATHS_PER_REQUEST
        q == [source |-> c.source, target |-> c.target, value |-> c.value,
              max_paths |-> limit, diversity_penalty |-> c.diversity_penalty]
    IN  {[exc |-> out.exc, paths |-> IF out.exc = "none" THEN out.paths ELSE <<>>] :
            out \in search(g, q, limit, <<>>, <<>>)}

\* C15: an earlier query leaves nothing behind that changes a later one: a
\* query right after a query can raise and return exactly what it can on
\* the graph without the weights the earlier query wrote, and where that is
\* one outcome only, the same query twice in a row raises the same and
\* returns the same list of paths in the same order.
C15_RepeatedQueryYieldsTheSame ==
    [][ (call.op = "get_paths" /\ call'.op = "get_paths") =>
            LET clean == Outcomes(Unweighted(G), call')
                seen == [exc |-> exc',
                         paths |-> [i \in 1..Len(result') |-> result'[i].path]]
            IN  /\ Outcomes(G, call') = clean
                /\ seen \in clean
                /\ (call' = call /\ Cardinality(clean) = 1)
                       => (exc' = exc /\ result' = result) ]_vars

\* C15, reached: a second query in a row has returned two paths under a
\* positive diversity penalty, over edges that carry the weights of a query.
C15_Witness ==
    /\ queries = 2
    /\ call.op = "get_paths"
    /\ call.diversity_penalty > 0
    /\ Len(result) = 2
    /\ \A e \in DOMAIN G.adj : "weight" \in DOMAIN G.adj[e]

\* C13: each entry of a get_paths result carries an estimated fee equal to
\* the sum of relative_fee over the views of the edges its path traverses.
C13_EstimatedFeeIsTheSumOfRelativeFees ==
    call.op = "get_paths" =>
        \A i \in 1..Len(result) :
            result[i].estimated_fee = fee_from(G, result[i].path, 1)

\* C14, as stated: the number of paths get_paths returns is at most
\* min(max_paths, MAX_PATHS_PER_REQUEST) for every max_paths, also those
\* above the system maximum and those <= 0, and the loop runs no more rounds
\* than that.
C14_AtMostTheClampedMaximum ==
    call.op = "get_paths" =>
        LET limit == IF call.max_paths < MAX_PATHS_PER_REQUEST
                     THEN call.max_paths ELSE MAX_PATHS_PER_REQUEST
        IN  Len(result) <= limit /\ rounds <= limit

\* C14, amended: the number of paths get_paths returns, and the number of
\* rounds its loop runs, is at most min(max_paths, MAX_PATHS_PER_REQUEST),
\* and none when that is negative.
C14_AtMostTheClampedMaximumOrNone ==
    call.op = "get_paths" =>
        LET limit == IF call.max_paths < MAX_PATHS_PER_REQUEST
                     THEN call.max_paths ELSE MAX_PATHS_PER_REQUEST
            most == IF limit < 0 THEN 0 ELSE limit
        IN  Len(result) <= most /\ rounds <= most

\* C14, reached: a query asked for more paths than the system maximum, more
\* qualifying routes than the system maximum exist, and the system maximum
\* of paths was returned.
C14_Witness ==
    /\ call.op = "get_paths"
    /\ call.max_paths > MAX_PATHS_PER_REQUEST
    /\ Cardinality(QualifyingRoutes(call.source, call.target, call.value))
          > MAX_PATHS_PER_REQUEST
    /\ Len(result) = MAX_PATHS_PER_REQUEST
    /\ rounds = MAX_PATHS_PER_REQUEST

\* C12: a path query never observes a half-applied balance update: when a
\* query that reads the views of the graph's edges runs while a message is
\* being handled, the views of the two directions of the message's channel
\* are both as they were before the message or both as they are after it.
C12_QuerySeesWholeBalanceUpdates ==
    [][ (queries' = queries + 1 /\ rounds' > 0 /\ inflight # <<>>) =>
            LET m == inflight.message
                u == m.updating_participant
                o == m.other_participant
                after == <<update_capacity(inflight.before[1], <<m.updating_nonce>>,
                               <<m.updating_capacity>>, <<>>, <<m.reveal_timeout>>),
                           update_capacity(inflight.before[2], <<m.other_nonce>>,
                               <<m.other_capacity>>, <<>>, <<>>)>>
            IN  <<view_of(G, u, o), view_of(G, o, u)>> \in {inflight.before, after} ]_vars

====
